---------------------------- MODULE Spec2Model ----------------------------
(***************************************************************************)
(* A model of src/app.py, the LNG trading-desk dashboard script.           *)
(*                                                                         *)
(* One run of the script is a straight line: read the sidebar widgets,     *)
(* get_eia_storage_analysis, get_gie_storage_analysis, render the two      *)
(* storage columns, get_market_data, render the four price metrics, the    *)
(* arbitrage block, the rest of the page.  A widget interaction reruns the *)
(* script from the top with fresh script variables.                        *)
(*                                                                         *)
(* Numbers.  Prices and costs are Python floats in the code.  The model    *)
(* keeps them exact: a price or cost is an integer number of hundredths    *)
(* (cents), and every value the code computes by multiplication or         *)
(* division is an exact rational [n, d] in lowest terms.  Storage levels   *)
(* are whole Bcf, storage percentages whole hundredths of a percent.       *)
(* Dates are the "%Y-%m-%d" strings of the code, kept as [y, m, d].        *)
(***************************************************************************)
EXTENDS Integers, Sequences, FiniteSets, TLC

VARIABLES
    pc,                 \* position of the script run
    eia_key,            \* sidebar: EIA Key (US), "" when not entered
    gie_key,            \* sidebar: GIE Key (EU), "" when not entered
    freight_cost,       \* sidebar slider, cents per MMBtu
    liquefaction_cost,  \* sidebar number input, cents per MMBtu
    manual_ttf,         \* sidebar number input, cents per MWh
    r_eia,              \* get_eia_storage_analysis: the response and its list d
    eia_data, eia_msg,  \* what get_eia_storage_analysis returned
    r_curr, r_hist,     \* get_gie_storage_analysis: the two responses
    gie_data, gie_msg,  \* what get_gie_storage_analysis returned
    hist,               \* get_market_data: what each ticker's history() did
    prices,             \* what get_market_data returned
    spread,             \* arbitrage block: the net spread, None when it did not run
    signal,             \* arbitrage block: "ARB OPEN", "ARB CLOSED" or "none"
    metrics             \* the widgets rendered so far, label -> text shown

vars == <<pc, eia_key, gie_key, freight_cost, liquefaction_cost, manual_ttf,
          r_eia, eia_data, eia_msg, r_curr, r_hist, gie_data, gie_msg,
          hist, prices, spread, signal, metrics>>

\* Python's None.
None == [none |-> TRUE]

-----------------------------------------------------------------------------
(* Exact rational arithmetic, standing in for float arithmetic.            *)

Abs(x) == IF x < 0 THEN -x ELSE x

RECURSIVE GCD(_, _)
GCD(a, b) == IF b = 0 THEN a ELSE GCD(b, a % b)

\* n/d in lowest terms with a positive denominator (d # 0).
R(n, d) ==
    LET g == GCD(Abs(n), Abs(d))
        s == IF d < 0 THEN -1 ELSE 1
    IN  [n |-> (s * n) \div g, d |-> (s * d) \div g]

RInt(k) == [n |-> k, d |-> 1]
\* Sums and comparisons go through the least common denominator, which keeps
\* the intermediate integers small.
LCM(a, b) == (a \div GCD(a, b)) * b
RAdd(a, b) == LET l == LCM(a.d, b.d) IN R(a.n * (l \div a.d) + b.n * (l \div b.d), l)
RSub(a, b) == LET l == LCM(a.d, b.d) IN R(a.n * (l \div a.d) - b.n * (l \div b.d), l)
RMul(a, b) == R(a.n * b.n, a.d * b.d)
RDiv(a, b) == R(a.n * b.d, a.d * b.n)
RLt(a, b) == LET l == LCM(a.d, b.d) IN a.n * (l \div a.d) < b.n * (l \div b.d)
RPos(a) == a.n > 0

\* A price or cost held in cents, as the number the code computes with.
Cents(c) == R(c, 100)

-----------------------------------------------------------------------------
(* Python outcomes: a call either returns a value or raises.               *)

Return(v) == [raised |-> FALSE, ret |-> v, msg |-> ""]
Raise(m) == [raised |-> TRUE, ret |-> None, msg |-> m]

\* A Python list as a sequence: d[i] is Item(d, i), an IndexError past the end.
HasIndex(d, i) == i >= 0 /\ i < Len(d)
Item(d, i) == d[i + 1]

\* float / float: Python raises ZeroDivisionError on a zero divisor.
\* (FloatDivInf: the faulty variant that yields an infinity instead.)
FloatDivInf(a, b) == IF b.n = 0 THEN Return([n |-> a.n, d |-> 0]) ELSE Return(RDiv(a, b))
FloatDiv(a, b) == IF b.n = 0 THEN Raise("float division by zero") ELSE Return(RDiv(a, b))

IndexError == Raise("list index out of range")
ValueError == Raise("day is out of range for month")
NoKey == Return([data |-> None, msg |-> "No Key"])
NotEnoughHistoryResult == Return([data |-> None, msg |-> "Not enough history"])
Hundred == RInt(100)

\* "except Exception as e: return None, str(e)"
\* (ReraiseException: the faulty variant without the handler.)
ReraiseException(o) == o
ExceptReturnNone(o) ==
    IF o.raised THEN Return([data |-> None, msg |-> o.msg]) ELSE o

-----------------------------------------------------------------------------
(* datetime: strptime("%Y-%m-%d"), date - timedelta(days), strftime.       *)

IsLeap(y) == (y % 4 = 0) /\ ((y % 100 # 0) \/ (y % 400 = 0))

DaysInMonth(y, m) ==
    IF m = 2 THEN (IF IsLeap(y) THEN 29 ELSE 28)
    ELSE IF m \in {4, 6, 9, 11} THEN 30 ELSE 31

DaysBeforeYear(y) ==
    LET p == y - 1 IN p * 365 + (p \div 4) - (p \div 100) + (p \div 400)

RECURSIVE DaysBeforeMonth(_, _)
DaysBeforeMonth(y, m) ==
    IF m = 1 THEN 0 ELSE DaysBeforeMonth(y, m - 1) + DaysInMonth(y, m - 1)

\* date.toordinal(): days since 0001-01-01, that day being 1.
ToOrdinal(dt) == DaysBeforeYear(dt.y) + DaysBeforeMonth(dt.y, dt.m) + dt.d

\* The years the model's dates fall in.
Years == 2022 .. 2026

\* date.fromordinal()
FromOrdinal(n) ==
    LET y == CHOOSE yy \in Years : DaysBeforeYear(yy) < n /\ n <= DaysBeforeYear(yy + 1)
        r == n - DaysBeforeYear(y)
        m == CHOOSE mm \in 1 .. 12 :
                 DaysBeforeMonth(y, mm) < r /\ r <= DaysBeforeMonth(y, mm) + DaysInMonth(y, mm)
    IN  [y |-> y, m |-> m, d |-> r - DaysBeforeMonth(y, m)]

\* Whether strptime accepts the string: a day the month does not have raises.
IsDate(dt) ==
    /\ dt.y \in Years /\ dt.m \in 1 .. 12 /\ dt.d \in 1 .. DaysInMonth(dt.y, dt.m)

\* curr_date - timedelta(days=k), formatted back to "%Y-%m-%d".
MinusDays(dt, k) == FromOrdinal(ToOrdinal(dt) - k)

-----------------------------------------------------------------------------
(* get_eia_storage_analysis                                                *)

MIN_HISTORY == 53
PRIOR_YEAR_INDEX == 52
REQUEST_LENGTH == 60

\* Line 88: len(d) < 53.  (OffByOne: the faulty variant len(d) < 52.)
NotEnoughHistoryOffByOne(d) == Len(d) < MIN_HISTORY - 1
NotEnoughHistory(d) == Len(d) < MIN_HISTORY

\* Line 91: d[52], the entry 52 weeks before the newest.
\* (OffByOne: the faulty variant d[51].)
PriorYearEntryOffByOne(d) == Item(d, PRIOR_YEAR_INDEX - 1)
PriorYearEntry(d) == Item(d, PRIOR_YEAR_INDEX)

\* Lines 86-96: the body of the try block, given what requests.get(...).json()
\* did: resp.status is "error" when the request or the decoding raised.
EiaTry(resp) ==
    IF resp.status = "error" THEN Raise(resp.msg)
    ELSE
    LET d == resp.data IN
    IF NotEnoughHistory(d) THEN NotEnoughHistoryResult
    ELSE IF ~HasIndex(d, 0) \/ ~HasIndex(d, PRIOR_YEAR_INDEX) \/ ~HasIndex(d, 1)
    THEN IndexError
    ELSE
    LET curr_val == Item(d, 0).value
        last_year_val == PriorYearEntry(d).value
        yoy_diff == curr_val - last_year_val
        q == FloatDiv(RInt(yoy_diff), RInt(last_year_val))
        change == Item(d, 0).value - Item(d, 1).value
    IN  IF q.raised THEN q
        ELSE Return([data |-> [val |-> curr_val, chg |-> change,
                               date |-> Item(d, 0).period, yoy_diff |-> yoy_diff,
                               yoy_pct |-> RMul(q.ret, Hundred),
                               last_year_val |-> last_year_val],
                     msg |-> "OK"])

get_eia_storage_analysis(api_key, resp) ==
    IF api_key = "" THEN NoKey
    ELSE ExceptReturnNone(EiaTry(resp))

-----------------------------------------------------------------------------
(* get_gie_storage_analysis                                                *)

YEAR_DAYS == 365

\* The date the historical request asks for (line 110), None when the first
\* half of the function raised before computing it.
LastYearDate(curr) ==
    IF curr.status = "error" \/ ~HasIndex(curr.data, 0) THEN None
    ELSE IF ~IsDate(Item(curr.data, 0).gasDayStart) THEN None
    ELSE MinusDays(Item(curr.data, 0).gasDayStart, YEAR_DAYS)

\* Lines 106-116: the body of the try block, given the two responses.
GieTry(curr, past) ==
    IF curr.status = "error" THEN Raise(curr.msg)
    ELSE IF ~HasIndex(curr.data, 0) THEN IndexError
    ELSE
    LET d_curr == Item(curr.data, 0) IN
    IF ~IsDate(d_curr.gasDayStart) THEN ValueError
    ELSE IF past.status = "error" THEN Raise(past.msg)
    ELSE IF ~HasIndex(past.data, 0) THEN IndexError
    ELSE
    LET d_hist == Item(past.data, 0)
        curr_full == d_curr.full
        last_full == d_hist.full
    IN  Return([data |-> [full |-> curr_full, val |-> d_curr.gasInStorage,
                          date |-> d_curr.gasDayStart,
                          yoy_diff |-> curr_full - last_full,
                          last_year_full |-> last_full],
                msg |-> "OK"])

get_gie_storage_analysis(api_key, curr, past) ==
    IF api_key = "" THEN NoKey
    ELSE ExceptReturnNone(GieTry(curr, past))

-----------------------------------------------------------------------------
(* get_market_data                                                         *)

Tickers == {"HH", "TTF", "JKM", "Oil"}

\* Lines 69 and 71.
InvalidQuote == [price |-> 0, change |-> 0, valid |-> FALSE]

\* Lines 61-71 for one ticker.  h is what yf.Ticker(t).history() did: it raised
\* (status "error") or returned the closes h.close, oldest first.  An empty
\* history takes the else branch; a history of one row raises at iloc[-2] and
\* is caught by the bare except.
Quote(h) ==
    IF h.status = "error" THEN InvalidQuote
    ELSE IF Len(h.close) = 0 THEN InvalidQuote
    ELSE IF Len(h.close) < 2 THEN InvalidQuote
    ELSE LET current == h.close[Len(h.close)]
             prev == h.close[Len(h.close) - 1]
         IN  [price |-> current, change |-> current - prev, valid |-> TRUE]

\* Line 72: price < 1, the price being in cents here.
ONE_EURO == 100

\* (UseManualAlways: the faulty variant that ignores the fetched quote.)
UseManualAlways(ttf, manual) == manual > 0
UseManual(ttf, manual) == (~ttf.valid \/ ttf.price < ONE_EURO) /\ manual > 0

\* Line 73.
ManualQuote(manual) ==
    [price |-> manual, change |-> 0, valid |-> TRUE, source |-> "Manual"]

get_market_data(h, manual) ==
    LET data == [HH |-> Quote(h.HH), TTF |-> Quote(h.TTF),
                 JKM |-> Quote(h.JKM), Oil |-> Quote(h.Oil)]
    IN  IF UseManual(data.TTF, manual)
        THEN [data EXCEPT !.TTF = ManualQuote(manual)]
        ELSE data

-----------------------------------------------------------------------------
(* The arbitrage block, lines 213-219.                                     *)

FX_RATE == R(105, 100)            \* 1.05
MWH_TO_MMBTU == R(3412, 1000)     \* 3.412
ORIGIN_MULTIPLIER == R(115, 100)  \* 1.15
SALES_DISCOUNT == RInt(1)         \* 1.0

\* Line 213.  (ArbRunsOnTTFAlone: the faulty variant that forgets HH.)
ArbRunsOnTTFAlone(p) == p.TTF.price > 0
ArbRuns(p) == p.HH.price > 0 /\ p.TTF.price > 0

\* Lines 214-217, all arguments in cents.  (SpreadNoMultiplier drops the
\* 1.15, SpreadFlatOrigin drops hh: faulty variants.)
SpreadNoMultiplier(hh, ttf, liq, freight) ==
    RSub(RSub(RDiv(RMul(Cents(ttf), FX_RATE), MWH_TO_MMBTU), SALES_DISCOUNT),
         RAdd(RAdd(Cents(hh), Cents(liq)), Cents(freight)))
SpreadFlatOrigin(hh, ttf, liq, freight) ==
    RSub(RSub(RDiv(RMul(Cents(ttf), FX_RATE), MWH_TO_MMBTU), SALES_DISCOUNT),
         RAdd(RAdd(ORIGIN_MULTIPLIER, Cents(liq)), Cents(freight)))
Spread(hh, ttf, liq, freight) ==
    LET ttf_usd == RDiv(RMul(Cents(ttf), FX_RATE), MWH_TO_MMBTU)
        cost == RAdd(RAdd(RMul(Cents(hh), ORIGIN_MULTIPLIER), Cents(liq)), Cents(freight))
    IN  RSub(RSub(ttf_usd, SALES_DISCOUNT), cost)

\* Lines 218-219.  (SignalOpenAtBreakeven: the faulty variant spread >= 0.)
SignalOpenAtBreakeven(s) == IF s.n >= 0 THEN "ARB OPEN" ELSE "ARB CLOSED"
Signal(s) == IF RPos(s) THEN "ARB OPEN" ELSE "ARB CLOSED"

-----------------------------------------------------------------------------
(* The sidebar and the outside world: the values each run can meet.        *)

MaxExtraWeeks == 1   \* weeks of history beyond the 53 the comparison needs
MaxLevel == 1        \* storage levels above the base level
MaxSkew == 4         \* days the source's historical reading may be off
MaxHH == 1           \* Henry Hub closes above the lowest
MaxTTF == 1          \* TTF closes above the lowest

\* Line 50: st.sidebar.slider("Freight", 0.2, 3.0, 0.8), in cents.
FREIGHT_MIN == 20
FREIGHT_MAX == 300
FREIGHT_DEFAULT == 80
\* Line 51: number_input("Liq Cost", value=3.0); line 53: value=0.0.
LIQ_DEFAULT == 300
MANUAL_TTF_DEFAULT == 0

Sidebar(keys, freights, liqs, manuals) ==
    [eia_key : keys, gie_key : keys, freight_cost : freights,
     liquefaction_cost : liqs, manual_ttf : manuals]

Keys == {"", "key"}

\* No request was made.
NoResponse == [status |-> "none", msg |-> "", data |-> <<>>]
NotAsked == {NoResponse}
NoHistory == [status |-> "none", close |-> <<>>]
NoHistories == [HH |-> NoHistory, TTF |-> NoHistory, JKM |-> NoHistory, Oil |-> NoHistory]
FailedRequest == [status |-> "error", msg |-> "Read timed out", data |-> <<>>]

\* A weekly history of n entries, newest first (the request sorts by period,
\* descending): a, b and c are the values of entries 0, 1 and 52, every other
\* entry holds a level of its own.
StorageLevels == {3000 + 100 * i : i \in 0 .. MaxLevel}
HistoryEntry(i, a, b, c) ==
    [period |-> 1000 - (i - 1),
     value |-> IF i = 1 THEN a
               ELSE IF i = 2 THEN b
               ELSE IF i = PRIOR_YEAR_INDEX + 1 THEN c
               ELSE 1000 + i]

RECURSIVE History(_, _, _, _)
History(n, a, b, c) ==
    IF n = 0 THEN <<>>
    ELSE Append(History(n - 1, a, b, c), HistoryEntry(n, a, b, c))

HistoryLengths ==
    {0, 1, 30} \cup ((MIN_HISTORY - 1) .. (MIN_HISTORY + MaxExtraWeeks)) \cup {REQUEST_LENGTH}

Histories ==
    {History(n, a, b, c) :
        n \in HistoryLengths, a \in StorageLevels, b \in StorageLevels,
        c \in {0} \cup StorageLevels}

EiaResponses ==
    {FailedRequest} \cup {[status |-> "ok", msg |-> "", data |-> d] : d \in Histories}

EiaResponsesFew ==
    {FailedRequest} \cup
    {[status |-> "ok", msg |-> "", data |-> History(n, 3100, 3000, 3000)] :
        n \in {30, MIN_HISTORY}}

\* The EU source's readings.  "full" is in hundredths of a percent.
Reading(day, full) == [gasDayStart |-> day, full |-> full, gasInStorage |-> 700]

CurrentDays ==
    {[y |-> 2024, m |-> 3, d |-> 1], [y |-> 2025, m |-> 1, d |-> 2],
     [y |-> 2024, m |-> 2, d |-> 30]}
CurrentDaysFew == {[y |-> 2024, m |-> 3, d |-> 1]}
CurrentFulls == {8000}
PastFulls == {7500, 8200}
PastFullsFew == {7500}

EmptyAnswer == [status |-> "ok", msg |-> "", data |-> <<>>]
FailedOrEmpty == {FailedRequest, EmptyAnswer}

GieResponses(days, fulls) ==
    FailedOrEmpty \cup
    {[status |-> "ok", msg |-> "", data |-> <<Reading(day, f)>>] : day \in days, f \in fulls}

\* What the source may answer to the request for the day `asked`: a reading
\* of that day, or of a day up to MaxSkew days away.
DaysNear(asked) ==
    {FromOrdinal(ToOrdinal(asked) + k) : k \in (0 - MaxSkew) .. MaxSkew}

\* What each ticker's history() may do.  Closes are in cents, oldest first.
Closes(seqs) == {[status |-> "ok", close |-> c] : c \in seqs}
TickerError == [status |-> "error", close |-> <<>>]

HHCloses == {0} \cup {200 + 80 * i : i \in 0 .. MaxHH}
TTFCloses == {50} \cup {3000 + 412 * i : i \in 0 .. MaxTTF}

Fetches ==
    [HH : {TickerError} \cup Closes({<<>>, <<250>>} \cup {<<250, c>> : c \in HHCloses}),
     TTF : {TickerError} \cup Closes({<<>>} \cup {<<2900, c>> : c \in TTFCloses}),
     JKM : {TickerError} \cup Closes({<<1150, 1200>>}),
     Oil : Closes({<<>>, <<7900, 8000>>})]

FetchesFew ==
    [HH : {TickerError} \cup Closes({<<250, 280>>}),
     TTF : Closes({<<2900, 3000>>}),
     JKM : Closes({<<1150, 1200>>}),
     Oil : Closes({<<7900, 8000>>})]

Sidebars ==
    Sidebar(Keys, {FREIGHT_MIN, FREIGHT_DEFAULT, FREIGHT_MAX},
            {LIQ_DEFAULT, 420}, {MANUAL_TTF_DEFAULT, 3000})

SidebarsFew ==
    Sidebar(Keys, {FREIGHT_DEFAULT}, {LIQ_DEFAULT}, {MANUAL_TTF_DEFAULT})

-----------------------------------------------------------------------------
(* The script run.                                                          *)

NoMetrics == [US |-> None, EU |-> None, HH |-> None, TTF |-> None,
              JKM |-> None, Oil |-> None]

\* Lines 45-53: the widgets are read, no script variable is set yet.
Start(sb) ==
    /\ pc = "eia"
    /\ eia_key = sb.eia_key
    /\ gie_key = sb.gie_key
    /\ freight_cost = sb.freight_cost
    /\ liquefaction_cost = sb.liquefaction_cost
    /\ manual_ttf = sb.manual_ttf
    /\ r_eia = NoResponse
    /\ eia_data = None /\ eia_msg = ""
    /\ r_curr = NoResponse /\ r_hist = NoResponse
    /\ gie_data = None /\ gie_msg = ""
    /\ hist = NoHistories
    /\ prices = None
    /\ spread = None
    /\ signal = "none"
    /\ metrics = NoMetrics

\* Line 183: eia_data, eia_msg = get_eia_storage_analysis(eia_key).
EiaStorage(responses) ==
    /\ pc = "eia"
    /\ \E resp \in responses :
         LET r == IF eia_key = "" THEN NoResponse ELSE resp
             o == get_eia_storage_analysis(eia_key, r)
         IN  /\ r_eia' = r
             /\ IF o.raised
                THEN pc' = "aborted" /\ UNCHANGED <<eia_data, eia_msg>>
                ELSE pc' = "gie" /\ eia_data' = o.ret.data /\ eia_msg' = o.ret.msg
    /\ UNCHANGED <<eia_key, gie_key, freight_cost, liquefaction_cost, manual_ttf,
                   r_curr, r_hist, gie_data, gie_msg, hist, prices, spread,
                   signal, metrics>>

\* Line 184: gie_data, gie_msg = get_gie_storage_analysis(gie_key).  The second
\* request is made only when the first half of the try block got to it.
GieStorage(days, fulls, pastFulls) ==
    /\ pc = "gie"
    /\ \E c \in GieResponses(days, fulls) :
         LET curr == IF gie_key = "" THEN NoResponse ELSE c
             asked == LastYearDate(curr)
         IN  \E p \in (IF asked = None THEN NotAsked
                       ELSE GieResponses(DaysNear(asked), pastFulls)) :
               LET o == get_gie_storage_analysis(gie_key, curr, p)
               IN  /\ r_curr' = curr
                   /\ r_hist' = p
                   /\ IF o.raised
                      THEN pc' = "aborted" /\ UNCHANGED <<gie_data, gie_msg>>
                      ELSE /\ pc' = "storage"
                           /\ gie_data' = o.ret.data
                           /\ gie_msg' = o.ret.msg
    /\ UNCHANGED <<eia_key, gie_key, freight_cost, liquefaction_cost, manual_ttf,
                   r_eia, eia_data, eia_msg, hist, prices, spread, signal, metrics>>

\* Lines 186-200: the two storage columns.
RenderStorage ==
    /\ pc = "storage"
    /\ metrics' = [metrics EXCEPT
         !.US = IF eia_data # None
                THEN [na |-> FALSE, value |-> eia_data.val, delta |-> eia_data.chg,
                      yoy |-> eia_data.yoy_diff, yoy_pct |-> eia_data.yoy_pct]
                ELSE [na |-> TRUE, delta |-> eia_msg],
         !.EU = IF gie_data # None
                THEN [na |-> FALSE, value |-> gie_data.full, delta |-> gie_data.val,
                      yoy |-> gie_data.yoy_diff]
                ELSE [na |-> TRUE, delta |-> gie_msg]]
    /\ pc' = "prices"
    /\ UNCHANGED <<eia_key, gie_key, freight_cost, liquefaction_cost, manual_ttf,
                   r_eia, eia_data, eia_msg, r_curr, r_hist, gie_data, gie_msg,
                   hist, prices, spread, signal>>

\* Line 206: prices = get_market_data().
MarketData(fetches) ==
    /\ pc = "prices"
    /\ \E h \in fetches :
         /\ hist' = h
         /\ prices' = get_market_data(h, manual_ttf)
    /\ pc' = "metrics"
    /\ UNCHANGED <<eia_key, gie_key, freight_cost, liquefaction_cost, manual_ttf,
                   r_eia, eia_data, eia_msg, r_curr, r_hist, gie_data, gie_msg,
                   spread, signal, metrics>>

\* Lines 207-211: the four price metrics.
PriceMetric(q) == [na |-> FALSE, value |-> q.price, delta |-> q.change]

RenderPrices ==
    /\ pc = "metrics"
    /\ metrics' = [metrics EXCEPT
         !.HH = PriceMetric(prices.HH),
         !.TTF = PriceMetric(prices.TTF),
         !.JKM = PriceMetric(prices.JKM),
         !.Oil = PriceMetric(prices.Oil)]
    /\ pc' = "arb"
    /\ UNCHANGED <<eia_key, gie_key, freight_cost, liquefaction_cost, manual_ttf,
                   r_eia, eia_data, eia_msg, r_curr, r_hist, gie_data, gie_msg,
                   hist, prices, spread, signal>>

\* Lines 213-219.
Arbitrage ==
    /\ pc = "arb"
    /\ IF ArbRuns(prices)
       THEN LET s == Spread(prices.HH.price, prices.TTF.price,
                            liquefaction_cost, freight_cost)
            IN  spread' = s /\ signal' = Signal(s)
       ELSE UNCHANGED <<spread, signal>>
    /\ pc' = "rest"
    /\ UNCHANGED <<eia_key, gie_key, freight_cost, liquefaction_cost, manual_ttf,
                   r_eia, eia_data, eia_msg, r_curr, r_hist, gie_data, gie_msg,
                   hist, prices, metrics>>

\* Lines 221-336: the port radar, the news panel and the weather map read and
\* write none of the variables above.
RestOfPage ==
    /\ pc = "rest"
    /\ pc' = "done"
    /\ UNCHANGED <<eia_key, gie_key, freight_cost, liquefaction_cost, manual_ttf,
                   r_eia, eia_data, eia_msg, r_curr, r_hist, gie_data, gie_msg,
                   hist, prices, spread, signal, metrics>>

\* A widget interaction: the script runs again from the top.
Rerun(sidebars) ==
    /\ pc \in {"done", "aborted"}
    /\ \E sb \in sidebars :
         /\ pc' = "eia"
         /\ eia_key' = sb.eia_key
         /\ gie_key' = sb.gie_key
         /\ freight_cost' = sb.freight_cost
         /\ liquefaction_cost' = sb.liquefaction_cost
         /\ manual_ttf' = sb.manual_ttf
    /\ r_eia' = NoResponse
    /\ eia_data' = None /\ eia_msg' = ""
    /\ r_curr' = NoResponse /\ r_hist' = NoResponse
    /\ gie_data' = None /\ gie_msg' = ""
    /\ hist' = NoHistories
    /\ prices' = None
    /\ spread' = None
    /\ signal' = "none"
    /\ metrics' = NoMetrics

-----------------------------------------------------------------------------
(* Spec: every sidebar setting and every outcome of the four quote fetches, *)
(* with a few outcomes of the two storage sources.                          *)

Init == \E sb \in Sidebars : Start(sb)

Next ==
    \/ EiaStorage(EiaResponsesFew)
    \/ GieStorage(CurrentDaysFew, CurrentFulls, PastFullsFew)
    \/ RenderStorage
    \/ MarketData(Fetches)
    \/ RenderPrices
    \/ Arbitrage
    \/ RestOfPage
    \/ Rerun(Sidebars)

Spec == Init /\ [][Next]_vars

(* SpecStorage: every outcome of the two storage sources, with the default  *)
(* sidebar costs and a few outcomes of the quote fetches.                   *)

InitStorage == \E sb \in SidebarsFew : Start(sb)

NextStorage ==
    \/ EiaStorage(EiaResponses)
    \/ GieStorage(CurrentDays, CurrentFulls, PastFulls)
    \/ RenderStorage
    \/ MarketData(FetchesFew)
    \/ RenderPrices
    \/ Arbitrage
    \/ RestOfPage
    \/ Rerun(SidebarsFew)

SpecStorage == InitStorage /\ [][NextStorage]_vars

-----------------------------------------------------------------------------
(* Vocabulary of the properties.                                            *)

\* The arbitrage block has been passed.
AfterArbitrage == pc \in {"rest", "done"}
\* get_market_data has returned.
AfterMarketData == pc \in {"metrics", "arb", "rest", "done"}
\* get_eia_storage_analysis has returned, having been given a history.
EiaGivenHistory == pc # "eia" /\ r_eia.status = "ok"

\* What a ticker's fetch delivered: the last close and its change when there
\* are two closes to take them from, no quote otherwise.
Fetched(h) == h.status = "ok" /\ Len(h.close) >= 2
FetchedQuote(h) ==
    [price |-> h.close[Len(h.close)],
     change |-> h.close[Len(h.close)] - h.close[Len(h.close) - 1],
     valid |-> TRUE]

NoQuote == [price |-> 0, change |-> 0, valid |-> FALSE]
OtherTickers == Tickers \ {"TTF"}
Outcomes == {"ARB OPEN", "ARB CLOSED"}

\* The spec's net_spread, section 4.2, on prices and costs in cents:
\*   (ttf * 1.05 / 3.412 - 1.0) - (hh * 1.15 + liq + freight)
\* brought to the denominator 34,120,000 = 100 * 100 * 3412.
ReferenceSpread(hh, ttf, liq, freight) ==
    R(105000 * ttf - 34120000 - 392380 * hh - 341200 * (liq + freight), 34120000)

\* C1: whenever the arbitrage block ran, the signal is ARB OPEN exactly when
\* the computed net spread is strictly greater than 0, and ARB CLOSED when it
\* is 0 or negative.
C1_OpenIffSpreadPositive ==
    (AfterArbitrage /\ prices.HH.price > 0 /\ prices.TTF.price > 0) =>
        /\ spread # None
        /\ signal \in Outcomes
        /\ (signal = "ARB OPEN") <=> (spread.n > 0 /\ spread.d > 0)

\* C1 witness: a run whose net spread is exactly 0 and is reported closed.
C1_BreakevenReached ==
    pc = "done" /\ spread # None /\ spread.n = 0 /\ signal = "ARB CLOSED"

\* C2: when the HH or the TTF quote returned by get_market_data is marked
\* invalid, the arbitrage block produces no result, neither open nor closed.
C2_InvalidQuoteNoSignal ==
    (AfterArbitrage /\ (~prices.HH.valid \/ ~prices.TTF.valid)) =>
        signal = "none" /\ spread = None

\* C2 witness: an invalid HH quote beside a valid TTF quote, block passed.
C2_InvalidHHValidTTF ==
    pc = "done" /\ ~prices.HH.valid /\ prices.TTF.valid /\ signal = "none"

\* C3: whenever the arbitrage block ran, the spread equals the spec's
\* reference computation; HH 2.80, TTF 30.00, liquefaction 3.0 is open at
\* freight 0.8 and closed at freight 3.0.
C3_SpreadIsReference ==
    (AfterArbitrage /\ signal # "none") =>
        /\ spread = ReferenceSpread(prices.HH.price, prices.TTF.price,
                                    liquefaction_cost, freight_cost)
        /\ (prices.HH.price = 280 /\ prices.TTF.price = 3000 /\ liquefaction_cost = 300) =>
              /\ freight_cost = 80 => signal = "ARB OPEN"
              /\ freight_cost = 300 => signal = "ARB CLOSED"

\* C3 witness: scenario B, reported closed.
C3_ScenarioB ==
    /\ pc = "done" /\ signal = "ARB CLOSED"
    /\ prices.HH.price = 280 /\ prices.TTF.price = 3000
    /\ liquefaction_cost = 300 /\ freight_cost = 300

\* C4: a weekly history of fewer than 53 entries yields None with the
\* message "Not enough history"; a year-over-year result is only ever built
\* on the entry 52 positions after the newest.
C4_ShortHistoryNoResult ==
    /\ (EiaGivenHistory /\ Len(r_eia.data) < 53) =>
          eia_data = None /\ eia_msg = "Not enough history"
    /\ eia_data # None =>
          /\ Len(r_eia.data) >= 53
          /\ eia_data.last_year_val = r_eia.data[53].value

\* C4 witness: a history of 30 entries went through the page as N/A.
C4_ThirtyEntries ==
    /\ pc = "done" /\ r_eia.status = "ok" /\ Len(r_eia.data) = 30
    /\ eia_data = None /\ metrics.US.na

\* C5: a prior-year value of 0 is reported as a failure (None and a message),
\* no result carries an infinite or undefined yoy_pct, and the page goes on.
C5_ZeroPriorYearReported ==
    /\ pc # "aborted"
    /\ (EiaGivenHistory /\ Len(r_eia.data) >= 53 /\ r_eia.data[53].value = 0) =>
          /\ eia_data = None /\ eia_msg = "float division by zero"
          /\ pc = "done" => metrics.US = [na |-> TRUE, delta |-> eia_msg]
          /\ pc = "done" => metrics.HH # None
    /\ eia_data # None => eia_data.yoy_pct.d > 0

\* C5 witness: the page finished, arbitrage signal included, after a
\* prior-year value of 0.
C5_ZeroPriorYearPageDone ==
    /\ pc = "done" /\ r_eia.status = "ok" /\ Len(r_eia.data) >= 53
    /\ r_eia.data[53].value = 0
    /\ eia_data = None /\ metrics.US.na /\ signal # "none"

C7_PriorYearWithinTolerance ==
    gie_data # None =>
        LET asked == ToOrdinal(r_curr.data[1].gasDayStart) - 365
            got == ToOrdinal(r_hist.data[1].gasDayStart)
        IN  got - asked <= 3 /\ asked - got <= 3

\* C8: for fixed TTF, freight and liquefaction cost, a higher HH price gives
\* a strictly lower spread.
C8_SpreadDecreasesInHH ==
    (AfterArbitrage /\ signal # "none") =>
        \A h2 \in ({1, prices.HH.price + 1} \cup HHCloses) \ {0} :
            LET other == Spread(h2, prices.TTF.price, liquefaction_cost, freight_cost)
            IN  /\ h2 > prices.HH.price => RLt(other, spread)
                /\ h2 < prices.HH.price => RLt(spread, other)

\* C8 witness: a spread computed at the lowest positive HH close, with a
\* higher close to compare against.
C8_TwoPricesCompared ==
    /\ pc = "done" /\ signal # "none"
    /\ \E h2 \in HHCloses : h2 > prices.HH.price

\* C9: on a history of at least 53 entries, newest first, with a non-zero
\* entry 52, the result is OK with val = entry 0, last_year_val = entry 52,
\* yoy_diff their difference, yoy_pct = yoy_diff / entry 52 * 100 and
\* chg = entry 0 - entry 1.
C9_YearOverYearValues ==
    (EiaGivenHistory /\ Len(r_eia.data) >= 53 /\ r_eia.data[53].value # 0) =>
        LET e0 == r_eia.data[1].value
            e1 == r_eia.data[2].value
            e52 == r_eia.data[53].value
        IN  /\ eia_msg = "OK"
            /\ eia_data # None
            /\ eia_data.val = e0
            /\ eia_data.last_year_val = e52
            /\ eia_data.yoy_diff = e0 - e52
            /\ eia_data.yoy_pct = R((e0 - e52) * 100, e52)
            /\ eia_data.chg = e0 - e1
            /\ eia_data.date = r_eia.data[1].period

\* C9 witness: a full 60-entry history with a year-over-year difference.
C9_SixtyEntries ==
    /\ pc = "done" /\ r_eia.status = "ok" /\ Len(r_eia.data) = 60
    /\ eia_msg = "OK" /\ eia_data.yoy_diff # 0 /\ eia_data.chg # 0

\* C10: the TTF quote is replaced by the manual value only when
\* manual_ttf > 0 and the fetched TTF quote is invalid or below 1; the
\* replacement is valid, has change 0 and source "Manual"; otherwise the
\* fetched TTF entry is returned, and HH, JKM and Oil never change.
C10_ManualOverrideOnlyTTF ==
    AfterMarketData =>
        LET got(name) == IF Fetched(hist[name]) THEN FetchedQuote(hist[name])
                         ELSE NoQuote
        IN  /\ \A name \in OtherTickers : prices[name] = got(name)
            /\ IF manual_ttf > 0 /\ (~got("TTF").valid \/ got("TTF").price < 100)
               THEN prices.TTF = [price |-> manual_ttf, change |-> 0,
                                  valid |-> TRUE, source |-> "Manual"]
               ELSE prices.TTF = got("TTF")

\* C10 witness: a fetched TTF quote below 1 replaced by the manual value.
C10_LowQuoteReplaced ==
    /\ pc = "done" /\ Fetched(hist.TTF) /\ manual_ttf > 0
    /\ "source" \in DOMAIN prices.TTF /\ prices.TTF.price = manual_ttf

=============================================================================
